---- MODULE Spec2Model ----
(***************************************************************************)
(* Model of the font face cache and the two face builders of               *)
(* Source/Engine/UI/Font.cpp (Font, FontFace, FontFaceTTF, FontFaceBitmap),*)
(* of Spline::GetPoint of Source/Urho3D/Core/Spline.cpp and of the         *)
(* animation binding of Source/Engine/Scene/Animatable.cpp.                *)
(*                                                                         *)
(* Glyph tables are sequences: the glyph with C++ index i is glyphs[i+1].  *)
(* Glyph mappings and kerning tables are functions with a finite domain.   *)
(* A face is a record; its identity is the field id, given at construction.*)
(* A page texture is named by the pair <<face id, page position>>.         *)
(***************************************************************************)
EXTENDS Integers, Sequences, FiniteSets, TLC

\* ------------------------------------------------------------------ bounds

\* Number of FontFace objects constructed in one run of the model.
MaxBuilds == 2
\* Outer iterations of the packing loop of FontFaceTTF::Load that a run follows.
MaxPages == 3
\* Largest glyph index of an outline font program.
MaxGlyphIndex == 2
\* Number of char records of a bitmap-sheet descriptor.
MaxChars == 2
\* Number of kerning records of a bitmap-sheet descriptor.
MaxKern == 1
\* Stand-ins for FONT_TEXTURE_MIN_SIZE and FONT_TEXTURE_MAX_SIZE (Font.h), scaled down.
TexMinSize == 2
TexMaxSize == 4
\* Edge length of the image of a bitmap-sheet page file.
SheetDim == 8
\* Largest number of knots of a spline.
MaxKnots == 7
\* Spline parameters are multiples of 1 / FUnit.
FUnit == 8

\* ------------------------------------------------------- program constants

MIN_POINT_SIZE == 1
MAX_POINT_SIZE == 96

NULL == 0

\* Point sizes callers ask for: negative, zero, in range, above the maximum.
Sizes == {0 - 3, 0, 12, 97}

\* Code points used in font data, and code points looked up ('\n' is 10).
NEWLINE == 10
Ids == {10, 65, 66}
Codes == {10, 65, 66, 67}

\* ------------------------------------------------------------ C++ helpers

Max(a, b) == IF a > b THEN a ELSE b

Min(a, b) == IF a < b THEN a ELSE b

Clamp(v, lo, hi) == IF v < lo THEN lo ELSE IF v > hi THEN hi ELSE v

\* (short) of an int.
ToShort(v) == LET m == v % 65536 IN IF m >= 32768 THEN m - 65536 ELSE m

\* The low 16 bits of a value kept as unsigned: all that a later conversion to
\* short reads, so ToShort(Low16(v)) is (short)(unsigned)v.
Low16(v) == v % 65536

\* v >> 6 of a signed 26.6 fixed point value.
Shift6(v) == v \div 64

\* HashMap operator [] followed by an assignment.
MapPut(m, k, v) == [x \in (DOMAIN m) \cup {k} |-> IF x = k THEN v ELSE m[x]]

EmptyMap == [x \in {} |-> 0]

\* --------------------------------------------------------------- font data

SeqsUpTo(S, n) == UNION {[1..k -> S] : k \in 0..n}

\* One char record of a bitmap-sheet descriptor.
CharRec(id, x, w, h, adv, page) ==
    [id |-> id, x |-> x, y |-> 0, width |-> w, height |-> h,
     xoffset |-> 0, yoffset |-> 1, xadvance |-> adv, page |-> page]

PlainCharRecs == {CharRec(id, 0, 10, 12, 11, 0) : id \in Ids}

CharRecs ==
    PlainCharRecs
    \cup {CharRec(id, 11, 10, 12, 11, 1) : id \in Ids}
    \cup {CharRec(id, 0, 0, 0, 4, 0) : id \in Ids}

KernRecs == [first : {65, 66}, second : {65, 66}, amount : {0 - 2}]

\* A bitmap-sheet descriptor: what the XML document holds.
Descriptor(root, pagesElem, pages, pageElems, chars, hasKernings, kernings) ==
    [kind |-> "xml", size |-> 7, root |-> root, pagesElem |-> pagesElem,
     info |-> TRUE, infoSize |-> 16, lineHeight |-> 14,
     pages |-> pages, pageElems |-> pageElems, chars |-> chars,
     hasKernings |-> hasKernings, kernings |-> kernings]

\* The descriptor of the spec's example, with a second glyph and one kerning pair.
ExampleChars == <<CharRec(65, 0, 10, 12, 11, 0), CharRec(66, 11, 10, 12, 11, 0)>>

ExampleKernings == <<[first |-> 65, second |-> 66, amount |-> 0 - 2]>>

ExampleDescriptor == Descriptor(TRUE, TRUE, 1, 1, ExampleChars, TRUE, ExampleKernings)

\* Well-formed documents: every choice of char records without a kernings
\* section, and every choice of kerning records over plain char records.
ContentDescriptors ==
    {Descriptor(TRUE, TRUE, 1, 1, cs, FALSE, <<>>) : cs \in SeqsUpTo(CharRecs, MaxChars)}
    \cup {Descriptor(TRUE, TRUE, 1, 1, cs, TRUE, ks) :
            cs \in SeqsUpTo(PlainCharRecs, MaxChars), ks \in SeqsUpTo(KernRecs, MaxKern)}

\* The example document with sections missing and page counts that disagree.
StructureDescriptors ==
    {Descriptor(r, pe, 1, 1, ExampleChars, TRUE, ExampleKernings) :
        r \in BOOLEAN, pe \in BOOLEAN}
    \cup {Descriptor(TRUE, TRUE, n, m, ExampleChars, TRUE, ExampleKernings) :
            n \in 0..2, m \in 0..2}

\* Glyph metrics as the outline engine reports them, in 26.6 fixed point.
\* err: FT_Load_Glyph fails for the glyph.
Metrics(err, w, h) ==
    [err |-> err, width |-> w * 64 + 7, height |-> h * 64 + 7, horiBearingX |-> 64,
     horiBearingY |-> 64 * h, horiAdvance |-> (w + 1) * 64]

SpaceMetrics == [err |-> FALSE, width |-> 0, height |-> 0, horiBearingX |-> 0,
                 horiBearingY |-> 0, horiAdvance |-> 3 * 64]

\* The last shape is one pixel too wide for any page once padded.
GlyphShapes == {Metrics(TRUE, 0, 0), Metrics(FALSE, 1, 1), Metrics(FALSE, 2, 2),
                Metrics(FALSE, TexMaxSize, 1)}

\* The code points an outline program may define, in increasing order.
TTFCodes == <<65, 66>>

\* The coverage the engine renders a glyph with: peak is the value of the
\* top left pixel of its bitmap, body the value of every other pixel.
Ink(peak, body) == [peak |-> peak, body |-> body]

FullInk == Ink(255, 255)

\* An outline font program. charmap[n] is the glyph index of code point
\* TTFCodes[n], 0 when the program does not define the code point; metrics[i+1]
\* describes glyph index i; kerning is the engine's FT_HAS_KERNING flag;
\* ink[i+1] is the coverage of glyph index i.
Program(charmap, metrics, kerning) ==
    [kind |-> "ttf", size |-> 9, charmap |-> charmap, metrics |-> metrics,
     kerning |-> kerning, lineHeight |-> 100, ascender |-> 128,
     ink |-> [n \in DOMAIN metrics |-> FullInk]]

\* The program with the coverage of its glyphs replaced.
InkProgram(charmap, metrics, kerning, ink) ==
    [Program(charmap, metrics, kerning) EXCEPT !.ink = ink]

MaxOf(S) == IF S = {} THEN 0 ELSE CHOOSE m \in S : \A x \in S : x <= m

Range(f) == {f[x] : x \in DOMAIN f}

\* Number of glyphs of a program with this charmap: none when it maps nothing.
GlyphCount(charmap) == IF Range(charmap) = {0} THEN 0 ELSE MaxOf(Range(charmap)) + 1

Charmaps == [1..Len(TTFCodes) -> 0..MaxGlyphIndex]

Programs ==
    UNION {{Program(cm, ms, k) : ms \in [1..GlyphCount(cm) -> GlyphShapes], k \in BOOLEAN} :
            cm \in Charmaps}

\* Bytes that are neither an outline program nor a descriptor.
Junk == [kind |-> "junk", size |-> 3]

\* Font::fontData_ after Reset().
NoData == [kind |-> "none", size |-> 0]

\* slot->bitmap.buffer after FT_Load_Glyph and FT_Render_Glyph of glyph i: the
\* byte at column x of row y.
SlotBitmap(prog, i, x, y) ==
    IF x = 0 /\ y = 0 THEN prog.ink[i + 1].peak ELSE prog.ink[i + 1].body

\* The engine's kerning vector for the glyph pair (i, j), x component, 26.6.
FT_Get_Kerning(prog, i, j) == IF i = 1 /\ j = 2 THEN 0 - 128 ELSE IF i = 2 /\ j = 1 THEN 70 ELSE 0

\* ---------------------------------------------------------------- FontFace

\* FontGlyph: kerning maps the glyph index of the following glyph to an amount,
\* kept as an unsigned value (HashMap<unsigned, unsigned>) of which the model
\* holds the low 16 bits. Ids, indices and pages are never negative here, so
\* their conversion to unsigned changes nothing.
Glyph(x, y, w, h, ox, oy, adv, page, kerning) ==
    [x |-> x, y |-> y, width |-> w, height |-> h, offsetX |-> ox, offsetY |-> oy,
     advanceX |-> adv, page |-> page, kerning |-> kerning]

NoGlyph == Glyph(0, 0, 0, 0, 0, 0, 0, 0, EmptyMap)

\* FontFace::FontFace, called through the constructor of either subclass.
\* loaded is not a member: it records what Load returned for the object.
FontFace(id, kind, pointSize) ==
    [id |-> id, kind |-> kind, pointSize |-> pointSize, hasKerning |-> FALSE,
     rowHeight |-> 0, glyphs |-> <<>>, glyphMapping |-> EmptyMap, textures |-> <<>>,
     loaded |-> FALSE]

\* FontFace::GetGlyph. reads: the glyph table indices the call reads.
GetGlyph(face, c) ==
    IF c \in DOMAIN face.glyphMapping
    THEN [found |-> TRUE, glyph |-> face.glyphs[face.glyphMapping[c] + 1],
          reads |-> {face.glyphMapping[c]}]
    ELSE [found |-> FALSE, glyph |-> NoGlyph, reads |-> {}]

\* GetKerning that reads the left glyph before it looks the right code point up.
GetKerning_LateCheck(face, c, d) ==
    IF ~face.hasKerning THEN [value |-> 0, reads |-> {}]
    ELSE IF c = NEWLINE \/ d = NEWLINE THEN [value |-> 0, reads |-> {}]
    ELSE IF c \notin DOMAIN face.glyphMapping THEN [value |-> 0, reads |-> {}]
    ELSE LET leftIndex == face.glyphMapping[c]
             kerning == face.glyphs[leftIndex + 1].kerning
         IN  IF d \in DOMAIN face.glyphMapping /\ face.glyphMapping[d] \in DOMAIN kerning
             THEN [value |-> ToShort(kerning[face.glyphMapping[d]]), reads |-> {leftIndex}]
             ELSE [value |-> 0, reads |-> {leftIndex}]

\* FontFace::GetKerning. reads: the glyph table indices the call reads.
GetKerning(face, c, d) ==
    IF ~face.hasKerning THEN [value |-> 0, reads |-> {}]
    ELSE IF c = NEWLINE \/ d = NEWLINE THEN [value |-> 0, reads |-> {}]
    ELSE IF c \notin DOMAIN face.glyphMapping THEN [value |-> 0, reads |-> {}]
    ELSE IF d \notin DOMAIN face.glyphMapping THEN [value |-> 0, reads |-> {}]
    ELSE LET leftIndex == face.glyphMapping[c]
             rightIndex == face.glyphMapping[d]
             kerning == face.glyphs[leftIndex + 1].kerning
         IN  IF rightIndex \in DOMAIN kerning
             THEN [value |-> ToShort(kerning[rightIndex]), reads |-> {leftIndex}]
             ELSE [value |-> 0, reads |-> {leftIndex}]

\* IsDataLost with the test of a page negated.
IsDataLost_Negated(face, lostTextures) ==
    \E i \in 1..Len(face.textures) : <<face.id, i>> \notin lostTextures

\* IsDataLost that asks the first page only.
IsDataLost_FirstOnly(face, lostTextures) ==
    Len(face.textures) > 0 /\ <<face.id, 1>> \in lostTextures

\* FontFace::IsDataLost, against the set of page textures that lost their data.
IsDataLost(face, lostTextures) ==
    \E i \in 1..Len(face.textures) : <<face.id, i>> \in lostTextures

RECURSIVE SumSizes(_, _)
SumSizes(textures, i) ==
    IF i > Len(textures) THEN 0
    ELSE textures[i].width * textures[i].height + SumSizes(textures, i + 1)

\* FontFace::GetTotalTextureSize.
GetTotalTextureSize(face) == SumSizes(face.textures, 1)

\* ----------------------------------------------------------- AreaAllocator

\* A shelf packer for one page: rectangles are placed left to right on the
\* current shelf, a new shelf opens below when the row is full, and a request
\* fails when it fits neither way inside TexMaxSize x TexMaxSize.
AreaAllocator == [cx |-> 0, cy |-> 0, rowH |-> 0, usedW |-> 0, usedH |-> 0]

Allocate(a, w, h) ==
    IF a.cx + w <= TexMaxSize /\ a.cy + h <= TexMaxSize
    THEN [ok |-> TRUE, x |-> a.cx, y |-> a.cy,
          a |-> [cx |-> a.cx + w, cy |-> a.cy, rowH |-> Max(a.rowH, h),
                 usedW |-> Max(a.usedW, a.cx + w), usedH |-> Max(a.usedH, a.cy + h)]]
    ELSE IF a.rowH > 0 /\ w <= TexMaxSize /\ a.cy + a.rowH + h <= TexMaxSize
    THEN [ok |-> TRUE, x |-> 0, y |-> a.cy + a.rowH,
          a |-> [cx |-> w, cy |-> a.cy + a.rowH, rowH |-> h,
                 usedW |-> Max(a.usedW, w), usedH |-> a.cy + a.rowH + h]]
    ELSE [ok |-> FALSE, x |-> 0, y |-> 0, a |-> a]

\* AreaAllocator::GetWidth and GetHeight.
GetWidth(a) == Max(TexMinSize, a.usedW)

GetHeight(a) == Max(TexMinSize, a.usedH)

\* ---------------------------------------------------------- FontFaceBitmap

\* The page loop of FontFaceBitmap::Load, from page i (0-based) on. img and tex
\* name the page (1-based, 0 for none) whose image file fails to load and whose
\* texture cannot be created.
RECURSIVE LoadPages(_, _, _, _, _)
LoadPages(data, i, textures, img, tex) ==
    IF i >= data.pages THEN [ok |-> TRUE, textures |-> textures]
    ELSE IF i >= data.pageElems THEN [ok |-> FALSE, textures |-> textures]
    ELSE IF img = i + 1 THEN [ok |-> FALSE, textures |-> textures]
    ELSE IF tex = i + 1 THEN [ok |-> FALSE, textures |-> textures]
    ELSE LoadPages(data, i + 1,
                   Append(textures, [width |-> SheetDim, height |-> SheetDim]), img, tex)

\* ReadChars that keeps the first mapping of an id.
RECURSIVE ReadChars_FirstWins(_, _, _, _)
ReadChars_FirstWins(chars, n, glyphs, mapping) ==
    IF n > Len(chars) THEN [glyphs |-> glyphs, glyphMapping |-> mapping]
    ELSE LET c == chars[n]
             glyph == Glyph(ToShort(c.x), ToShort(c.y), ToShort(c.width), ToShort(c.height),
                            ToShort(c.xoffset), ToShort(c.yoffset), ToShort(c.xadvance),
                            c.page, EmptyMap)
             index == Len(glyphs)
         IN  ReadChars_FirstWins(chars, n + 1, Append(glyphs, glyph),
                                 IF c.id \in DOMAIN mapping THEN mapping
                                 ELSE MapPut(mapping, c.id, index))

\* The char loop of FontFaceBitmap::Load, from record n on: every record is
\* pushed to the glyph table and its id is mapped to the index it got.
RECURSIVE ReadChars(_, _, _, _)
ReadChars(chars, n, glyphs, mapping) ==
    IF n > Len(chars) THEN [glyphs |-> glyphs, glyphMapping |-> mapping]
    ELSE LET c == chars[n]
             glyph == Glyph(ToShort(c.x), ToShort(c.y), ToShort(c.width), ToShort(c.height),
                            ToShort(c.xoffset), ToShort(c.yoffset), ToShort(c.xadvance),
                            c.page, EmptyMap)
             index == Len(glyphs)
         IN  ReadChars(chars, n + 1, Append(glyphs, glyph),
                       MapPut(mapping, c.id, index))

\* The kerning loop of FontFaceBitmap::Load, from record n on.
RECURSIVE ReadKernings(_, _, _, _)
ReadKernings(recs, n, glyphs, mapping) ==
    IF n > Len(recs) THEN glyphs
    ELSE LET k == recs[n]
             first == k.first
         IN  IF first \in DOMAIN mapping
             THEN LET at == mapping[first] + 1
                      g == glyphs[at]
                      g2 == [g EXCEPT !.kerning =
                                MapPut(g.kerning, k.second, Low16(k.amount))]
                  IN  ReadKernings(recs, n + 1, [glyphs EXCEPT ![at] = g2], mapping)
             ELSE ReadKernings(recs, n + 1, glyphs, mapping)

\* FontFaceBitmap::Load on a freshly constructed face: the value returned and
\* the face as the call leaves it.
FontFaceBitmap_Load(face, fontData, fontDataSize, img, tex) ==
    IF fontDataSize = 0 \/ fontData.kind # "xml" THEN [ok |-> FALSE, face |-> face]
    ELSE IF ~fontData.root THEN [ok |-> FALSE, face |-> face]
    ELSE IF ~fontData.pagesElem THEN [ok |-> FALSE, face |-> face]
    ELSE LET f1 == [face EXCEPT
                      !.pointSize = IF fontData.info THEN fontData.infoSize ELSE @,
                      !.rowHeight = fontData.lineHeight]
             pg == LoadPages(fontData, 0, <<>>, img, tex)
             f2 == [f1 EXCEPT !.textures = pg.textures]
         IN  IF ~pg.ok THEN [ok |-> FALSE, face |-> f2]
             ELSE LET cs == ReadChars(fontData.chars, 1, <<>>, EmptyMap)
                      gl == IF fontData.hasKernings
                            THEN ReadKernings(fontData.kernings, 1, cs.glyphs, cs.glyphMapping)
                            ELSE cs.glyphs
                  IN  [ok |-> TRUE,
                       face |-> [f2 EXCEPT
                                   !.glyphs = gl,
                                   !.glyphMapping = cs.glyphMapping,
                                   !.hasKerning = IF fontData.hasKernings THEN @ ELSE FALSE,
                                   !.loaded = TRUE]]

\* ------------------------------------------------------------- FontFaceTTF

\* The glyph mapping loop of FontFaceTTF::Load: FT_Get_First_Char and
\* FT_Get_Next_Char walk the code points the program defines, from the n-th on.
RECURSIVE BuildMapping(_, _, _, _)
BuildMapping(prog, n, numGlyphs, mapping) ==
    IF n > Len(TTFCodes) THEN [numGlyphs |-> numGlyphs, glyphMapping |-> mapping]
    ELSE LET glyphIndex == prog.charmap[n]
         IN  IF glyphIndex = 0 THEN BuildMapping(prog, n + 1, numGlyphs, mapping)
             ELSE BuildMapping(prog, n + 1, Max(glyphIndex + 1, numGlyphs),
                               MapPut(mapping, TTFCodes[n], glyphIndex))

\* One glyph of the metrics loop of FontFaceTTF::Load. x, y and page are set by
\* the packing loop before anything reads them.
NewGlyph(prog, i) ==
    LET m == prog.metrics[i + 1]
    IN  IF ~m.err
        THEN Glyph(0, 0, ToShort(Shift6(m.width)), ToShort(Shift6(m.height)),
                   ToShort(Shift6(m.horiBearingX)),
                   ToShort(Shift6(prog.ascender - m.horiBearingY)),
                   ToShort(Shift6(m.horiAdvance)), 0, EmptyMap)
        ELSE Glyph(0, 0, 0, 0, 0, 0, 0, 0, EmptyMap)

\* The kerning table of glyph i when the engine has kerning: one entry per glyph.
KerningRow(prog, i, numGlyphs) ==
    [j \in 0..(numGlyphs - 1) |-> Low16(ToShort(Shift6(FT_Get_Kerning(prog, i, j))))]

\* FontFaceTTF::Load up to the packing loop. ft is what the engine answers:
\* "ok", "newFaceErr" (FT_New_Memory_Face fails) or "setSizeErr" (FT_Set_Char_Size
\* fails). engine: whether any engine call was made; open: whether the engine
\* face handle is open when the part ends.
FontFaceTTF_Begin(face, fontData, fontDataSize, ft) ==
    IF face.pointSize <= 0
    THEN [ok |-> FALSE, face |-> face, numGlyphs |-> 0, engine |-> FALSE, open |-> FALSE]
    ELSE IF fontDataSize = 0
    THEN [ok |-> FALSE, face |-> face, numGlyphs |-> 0, engine |-> FALSE, open |-> FALSE]
    ELSE IF fontData.kind # "ttf" \/ ft = "newFaceErr"
    THEN [ok |-> FALSE, face |-> face, numGlyphs |-> 0, engine |-> TRUE, open |-> FALSE]
    ELSE IF ft = "setSizeErr"
    THEN [ok |-> FALSE, face |-> face, numGlyphs |-> 0, engine |-> TRUE, open |-> FALSE]
    ELSE LET mp == BuildMapping(fontData, 1, 0, EmptyMap)
             numGlyphs == mp.numGlyphs
             plain == [n \in 1..numGlyphs |-> NewGlyph(fontData, n - 1)]
             maxHeight == MaxOf({plain[n].height : n \in 1..numGlyphs} \cup {0})
             glyphs == IF fontData.kerning
                       THEN [n \in 1..numGlyphs |->
                               [plain[n] EXCEPT !.kerning = KerningRow(fontData, n - 1, numGlyphs)]]
                       ELSE plain
         IN  [ok |-> TRUE,
              face |-> [face EXCEPT
                          !.glyphMapping = mp.glyphMapping,
                          !.glyphs = glyphs,
                          !.hasKerning = fontData.kerning,
                          !.rowHeight = Max(Shift6(fontData.lineHeight + 63), maxHeight)],
              numGlyphs |-> numGlyphs, engine |-> TRUE, open |-> TRUE]

\* PackGlyphs that passes over a glyph that does not fit and goes on.
RECURSIVE PackGlyphs_Continue(_, _, _, _, _)
PackGlyphs_Continue(glyphs, index, numGlyphs, allocator, page) ==
    IF index >= numGlyphs THEN [glyphs |-> glyphs, index |-> index, allocator |-> allocator]
    ELSE LET g == glyphs[index + 1]
         IN  IF g.width # 0 /\ g.height # 0
             THEN LET r == Allocate(allocator, g.width + 1, g.height + 1)
                  IN  IF r.ok
                      THEN PackGlyphs_Continue([glyphs EXCEPT ![index + 1] =
                                                   [g EXCEPT !.x = r.x, !.y = r.y, !.page = page]],
                                               index + 1, numGlyphs, r.a, page)
                      ELSE PackGlyphs_Continue(glyphs, index + 1, numGlyphs, allocator, page)
             ELSE PackGlyphs_Continue([glyphs EXCEPT ![index + 1] =
                                          [g EXCEPT !.x = 0, !.y = 0, !.page = 0]],
                                      index + 1, numGlyphs, allocator, page)

\* The inner loop of the packing loop: glyphs from index on are offered to the
\* page's allocator until one does not fit.
RECURSIVE PackGlyphs(_, _, _, _, _)
PackGlyphs(glyphs, index, numGlyphs, allocator, page) ==
    IF index >= numGlyphs THEN [glyphs |-> glyphs, index |-> index, allocator |-> allocator]
    ELSE LET g == glyphs[index + 1]
         IN  IF g.width # 0 /\ g.height # 0
             THEN LET r == Allocate(allocator, g.width + 1, g.height + 1)
                  IN  IF r.ok
                      THEN PackGlyphs([glyphs EXCEPT ![index + 1] =
                                          [g EXCEPT !.x = r.x, !.y = r.y, !.page = page]],
                                      index + 1, numGlyphs, r.a, page)
                      ELSE [glyphs |-> glyphs, index |-> index, allocator |-> allocator]
             ELSE PackGlyphs([glyphs EXCEPT ![index + 1] =
                                 [g EXCEPT !.x = 0, !.y = 0, !.page = 0]],
                             index + 1, numGlyphs, allocator, page)

\* The offsets into the data of an image texWidth wide that the pixel loops of
\* FontFaceTTF::Load visit for a glyph, each with the column and row it stands for.
GlyphOffsets(g, texWidth) ==
    {[at |-> texWidth * (y + g.y) + g.x + x, x |-> x, y |-> y] :
        x \in 0..(g.width - 1), y \in 0..(g.height - 1)}

\* The render loop of one page: the glyphs i..index-1 of non-zero size are
\* copied into the cleared image and the largest value of each is summed up.
RECURSIVE RenderGlyphs(_, _, _, _, _, _, _, _)
RenderGlyphs(prog, glyphs, i, index, texWidth, imageData, sumMaxOpacity, samples) ==
    IF i >= index
    THEN [imageData |-> imageData, sumMaxOpacity |-> sumMaxOpacity, samples |-> samples]
    ELSE LET g == glyphs[i + 1]
         IN  IF g.width = 0 \/ g.height = 0
             THEN RenderGlyphs(prog, glyphs, i + 1, index, texWidth, imageData,
                               sumMaxOpacity, samples)
             ELSE LET offs == GlyphOffsets(g, texWidth)
                      written == [k \in DOMAIN imageData |->
                                    IF \E o \in offs : o.at = k
                                    THEN LET o == CHOOSE o \in offs : o.at = k
                                         IN  SlotBitmap(prog, i, o.x, o.y)
                                    ELSE imageData[k]]
                      glyphOpacity == MaxOf({SlotBitmap(prog, i, o.x, o.y) : o \in offs})
                  IN  IF glyphOpacity # 0
                      THEN RenderGlyphs(prog, glyphs, i + 1, index, texWidth, written,
                                        sumMaxOpacity + glyphOpacity, samples + 1)
                      ELSE RenderGlyphs(prog, glyphs, i + 1, index, texWidth, written,
                                        sumMaxOpacity, samples)

\* AvgMaxOpacity without the lower limit.
AvgMaxOpacity_NoMinimum(sumMaxOpacity, samples) ==
    IF samples # 0 THEN (sumMaxOpacity \div samples) % 256 ELSE 255

\* The value of the unsigned char avgMaxOpacity.
AvgMaxOpacity(sumMaxOpacity, samples) ==
    IF samples # 0 THEN Max(sumMaxOpacity \div samples, 128) % 256 ELSE 255

\* float scale = 255.0f / avgMaxOpacity: the single precision value nearest
\* to the quotient (ties to even), as mantissa m and exponent e with
\* scale = m / 2^e and 2^23 <= m <= 2^24.
FloatScale(avgMaxOpacity) ==
    LET e == CHOOSE k \in 16..23 :
                avgMaxOpacity * 2^(23 - k) <= 255 /\ 255 < avgMaxOpacity * 2^(24 - k)
        n == 255 * 2^e
        q == n \div avgMaxOpacity
        r == n % avgMaxOpacity
    IN  [m |-> IF 2 * r > avgMaxOpacity \/ (2 * r = avgMaxOpacity /\ q % 2 = 1)
               THEN q + 1 ELSE q,
         e |-> e]

\* (int)(pixel * scale): the exact product pixel * scale.m is h * 2^12 + l; it
\* is rounded to 24 significant bits (ties to even), as the single precision
\* multiplication does, and the integer part of the result is taken.
FloatProductToInt(pixel, scale) ==
    LET lowProduct == pixel * (scale.m % 4096)
        h == pixel * (scale.m \div 4096) + lowProduct \div 4096
        l == lowProduct % 4096
        s == CHOOSE k \in 0..9 : h < 2^(12 + k) /\ (k = 0 \/ h >= 2^(11 + k))
        unit == 2^s
        lq == l \div unit
        lr == l % unit
        rounded == IF 2 * lr > unit \/ (2 * lr = unit /\ lq % 2 = 1)
                   THEN (lq + 1) * unit ELSE lq * unit
    IN  (h + rounded \div 4096) \div 2^(scale.e - 12)

\* dest[x] = Min((int)(pixel * scale), 255).
ScalePixel(pixel, avgMaxOpacity) ==
    Min(FloatProductToInt(pixel, FloatScale(avgMaxOpacity)), 255)

\* The scaling loop of the normalizer, from glyph i on: every pixel of the
\* rectangle of every glyph is scaled in the image of the glyph's page.
RECURSIVE ScaleGlyphs(_, _, _, _, _)
ScaleGlyphs(images, glyphs, i, numGlyphs, avgMaxOpacity) ==
    IF i >= numGlyphs THEN images
    ELSE LET g == glyphs[i + 1]
             image == images[g.page + 1]
             offs == GlyphOffsets(g, image.width)
             scaled == [k \in DOMAIN image.data |->
                          IF \E o \in offs : o.at = k
                          THEN ScalePixel(image.data[k], avgMaxOpacity)
                          ELSE image.data[k]]
         IN  ScaleGlyphs([images EXCEPT ![g.page + 1].data = scaled], glyphs, i + 1,
                         numGlyphs, avgMaxOpacity)

\* The opacity normalizer of FontFaceTTF::Load.
Normalize(images, glyphs, numGlyphs, sumMaxOpacity, samples) ==
    LET avgMaxOpacity == AvgMaxOpacity(sumMaxOpacity, samples)
    IN  IF avgMaxOpacity < 255
        THEN ScaleGlyphs(images, glyphs, 0, numGlyphs, avgMaxOpacity)
        ELSE images

\* The texture loop that ends FontFaceTTF::Load, from image i on. tex names the
\* page (1-based, 0 for none) whose texture cannot be created.
RECURSIVE CreateTextures(_, _, _, _)
CreateTextures(images, i, textures, tex) ==
    IF i > Len(images) THEN [ok |-> TRUE, textures |-> textures]
    ELSE IF tex = i THEN [ok |-> FALSE, textures |-> textures]
    ELSE CreateTextures(images, i + 1, Append(textures, images[i]), tex)

\* -------------------------------------------------------------------- state

VARIABLES
    graphics,      \* whether the Graphics subsystem exists (FALSE: headless)
    fontType,      \* Font::fontType_: "NONE", "TTF" or "BITMAP"
    fontData,      \* Font::fontData_: what the bytes hold
    fontDataSize,  \* Font::fontDataSize_
    faces,         \* Font::faces_: key |-> face
    memoryUse,     \* Resource::memoryUse_
    lost,          \* page textures, <<face id, page>>, that lost their data
    nextId,        \* number of FontFace objects constructed so far
    ftOpen,        \* engine face handles created and not released
    pc,            \* "idle", or "pack": GetFace is inside the packing loop of FontFaceTTF::Load
    cur,           \* the locals of the build in progress
    last,          \* the latest GetFace call since the font was loaded, as observed
    held,          \* requested size |-> id of the face GetFace last returned for it
    loadedExt      \* extension of the name the latest Load succeeded under, "" for none

fontVars == <<graphics, fontType, fontData, fontDataSize, faces, memoryUse, lost, nextId,
              ftOpen, pc, cur, last, held, loadedExt>>

\* A Spline object.
VARIABLES
    interpolationMode,  \* Spline::interpolationMode_
    knots,              \* the size of Spline::knots_; the knots are Vector3 values
    point               \* the latest GetPoint call, as observed

splineVars == <<interpolationMode, knots, point>>

\* An Animatable object, an XML element it was saved into and the object that
\* was loaded from the element.
VARIABLES
    objectAnimation,              \* Animatable::objectAnimation_
    attributeAnimationInstances,  \* Animatable::attributeAnimationInstances_: name |-> instance
    animatedNetworkAttributes,    \* Animatable::animatedNetworkAttributes_, by attribute name
    xml,                          \* the element of the latest SaveXML and the object as it was saved
    copy                          \* the object the latest LoadXML filled

animVars == <<objectAnimation, attributeAnimationInstances, animatedNetworkAttributes, xml, copy>>

vars == <<fontVars, splineVars, animVars>>

\* reads: the indices of knots_ the call read; result: "none" before the first
\* call.
NoPoint == [f |-> 0, size |-> 0, reads |-> {}, result |-> "none"]

\* The null AttributeAnimation and the null ObjectAnimation.
NoAnimation == [id |-> 0, valueType |-> "VAR_NONE", owner |-> 0]

NoObjectAnimation == [id |-> 0, name |-> "", attributeAnimations |-> EmptyMap]

\* Animatable::Animatable: the members of an object just constructed.
NewAnimatable ==
    [objectAnimation |-> NoObjectAnimation, instances |-> EmptyMap, net |-> {}]

\* No element saved yet, no object loaded yet.
NoElement == [saved |-> FALSE, children |-> <<>>, attribute |-> "", from |-> NewAnimatable]

NoCopy == [loaded |-> FALSE, object |-> NewAnimatable, from |-> NewAnimatable]

\* The Animatable while the model follows another object.
AnimatableAtRest ==
    /\ objectAnimation = NoObjectAnimation
    /\ attributeAnimationInstances = EmptyMap
    /\ animatedNetworkAttributes = {}
    /\ xml = NoElement
    /\ copy = NoCopy

\* The spline while the model follows another object.
SplineAtRest ==
    /\ interpolationMode = "BEZIER_CURVE"
    /\ knots = 0
    /\ point = NoPoint

NoBuild == [size |-> 0, key |-> 0, face |-> FontFace(0, "none", 0), numGlyphs |-> 0,
            page |-> 0, startIndex |-> 0, starts |-> <<>>, images |-> <<>>,
            sumMaxOpacity |-> 0, samples |-> 0]

\* op is "none" before the first call.
NoCall == [op |-> "none", size |-> 0, type |-> "NONE", preId |-> NULL, preLost |-> FALSE,
           ctor |-> FALSE, built |-> FALSE, done |-> TRUE, ok |-> FALSE, ret |-> NULL,
           engine |-> FALSE]

\* The font data and the resource name extensions of the cache specification.
SmallProgram == Program(<<1, 2>>, <<SpaceMetrics, Metrics(FALSE, 1, 1), Metrics(FALSE, 2, 2)>>, TRUE)

OversizeProgram == Program(<<0, 1>>, <<Metrics(FALSE, 1, 1), Metrics(FALSE, TexMaxSize, 1)>>, FALSE)

Sources == {ExampleDescriptor, SmallProgram, OversizeProgram, NoData}

Extensions == {".ttf", ".xml", ".fnt", ".png"}

\* What the engine, the file system and the texture facility answer during one
\* build. ft: "ok", "newFaceErr" or "setSizeErr"; img, tex: the page (1-based, 0
\* for none) whose image file fails to load, whose texture cannot be created.
Answer(ft, img, tex) == [ft |-> ft, img |-> img, tex |-> tex]

FailAt == 0..MaxPages

Answers ==
    {Answer(ft, 0, 0) : ft \in {"ok", "newFaceErr", "setSizeErr"}}
    \cup {Answer("ok", n, 0) : n \in FailAt}
    \cup {Answer("ok", 0, n) : n \in FailAt}

\* Font::Font.
InitFont ==
    /\ graphics \in BOOLEAN
    /\ fontType = "NONE"
    /\ fontData = NoData
    /\ fontDataSize = 0
    /\ faces = EmptyMap
    /\ memoryUse = 0
    /\ lost = {}
    /\ nextId = 0
    /\ ftOpen = 0
    /\ pc = "idle"
    /\ cur = NoBuild
    /\ last = NoCall
    /\ held = [s \in Sizes |-> NULL]
    /\ loadedExt = ""

Init == InitFont /\ SplineAtRest /\ AnimatableAtRest

\* ------------------------------------------------------------------- Font

\* The fontType_ assignment of Font::Load: an extension of neither kind leaves
\* the member as it was.
TypeOfExtension(ext, old) ==
    IF ext = ".ttf" THEN "TTF"
    ELSE IF ext = ".xml" \/ ext = ".fnt" THEN "BITMAP"
    ELSE old

\* Font::Load of a resource named *ext whose source holds `source`; readOk:
\* source.Read delivers every byte. After a short read the rest of the buffer
\* is uninitialized: it may hold anything, bytes that complete the font or not.
Load(ext, source, readOk) ==
    /\ pc = "idle"
    /\ IF ~graphics
       THEN UNCHANGED vars
       ELSE /\ faces' = EmptyMap
            /\ fontDataSize' = source.size
            /\ IF source.size # 0
               THEN IF readOk
                    THEN /\ fontData' = source
                         /\ fontType' = TypeOfExtension(ext, fontType)
                         /\ memoryUse' = source.size
                         /\ loadedExt' = ext
                    ELSE /\ fontData' \in {source, Junk}
                         /\ loadedExt' = ""
                         /\ UNCHANGED <<fontType, memoryUse>>
               ELSE /\ fontData' = NoData
                    /\ loadedExt' = ""
                    /\ UNCHANGED <<fontType, memoryUse>>
            /\ lost' = {}
            /\ last' = NoCall
            /\ held' = [s \in Sizes |-> NULL]
            /\ UNCHANGED <<graphics, nextId, ftOpen, pc, cur, splineVars, animVars>>

\* EffectiveKey that bounds an outline size from above only.
EffectiveKey_NoMinimum(type, pointSize) ==
    IF type = "BITMAP" THEN 0 ELSE Min(pointSize, MAX_POINT_SIZE)

\* EffectiveKey without the bitmap case.
EffectiveKey_AlwaysClamped(type, pointSize) ==
    Clamp(pointSize, MIN_POINT_SIZE, MAX_POINT_SIZE)

\* The key Font::GetFace looks up for a requested point size.
EffectiveKey(type, pointSize) ==
    IF type = "BITMAP" THEN 0 ELSE Clamp(pointSize, MIN_POINT_SIZE, MAX_POINT_SIZE)

\* Erase that empties the map.
Erase_All(m, key) == EmptyMap

\* faces_.Erase of the entry under key.
Erase(m, key) == [x \in (DOMAIN m) \ {key} |-> m[x]]

\* What one run of Font::GetFace, or the part of it up to the packing loop,
\* leaves behind. ret: the face returned (its id), NULL for none.
Outcome(fs, mem, id, open, p, c, ret, ctor, built, done, ok, engine) ==
    [faces |-> fs, memoryUse |-> mem, nextId |-> id, ftOpen |-> open, pc |-> p, cur |-> c,
     ret |-> ret, ctor |-> ctor, built |-> built, done |-> done, ok |-> ok, engine |-> engine]

\* Font::GetFaceTTF up to the packing loop of FontFaceTTF::Load; fs is faces_
\* as GetFace left it.
GetFaceTTF(size, pointSize, fs, ft) ==
    LET newFace == FontFace(nextId + 1, "ttf", pointSize)
        b == FontFaceTTF_Begin(newFace, fontData, fontDataSize, ft)
    IN  IF ~b.ok
        THEN Outcome(fs, memoryUse, nextId + 1, ftOpen, "idle", NoBuild,
                     NULL, TRUE, TRUE, TRUE, FALSE, b.engine)
        ELSE Outcome(fs, memoryUse, nextId + 1, ftOpen + 1, "pack",
                     [size |-> size, key |-> pointSize, face |-> b.face,
                      numGlyphs |-> b.numGlyphs, page |-> 0, startIndex |-> 0,
                      starts |-> <<>>, images |-> <<>>, sumMaxOpacity |-> 0, samples |-> 0],
                     NULL, TRUE, TRUE, FALSE, FALSE, b.engine)

\* GetFaceBitmap that caches and returns the face whatever Load returned.
GetFaceBitmap_Unchecked(pointSize, fs, img, tex) ==
    LET newFace == FontFace(nextId + 1, "bitmap", pointSize)
        b == FontFaceBitmap_Load(newFace, fontData, fontDataSize, img, tex)
    IN  [faces |-> MapPut(fs, pointSize, b.face),
         memoryUse |-> memoryUse + GetTotalTextureSize(b.face),
         nextId |-> nextId + 1, ftOpen |-> ftOpen, pc |-> "idle", cur |-> NoBuild,
         ret |-> b.face.id, ctor |-> TRUE, built |-> TRUE, done |-> TRUE, ok |-> b.ok,
         engine |-> FALSE]

\* Font::GetFaceBitmap; fs is faces_ as GetFace left it.
GetFaceBitmap(pointSize, fs, img, tex) ==
    LET newFace == FontFace(nextId + 1, "bitmap", pointSize)
        b == FontFaceBitmap_Load(newFace, fontData, fontDataSize, img, tex)
    IN  IF ~b.ok
        THEN Outcome(fs, memoryUse, nextId + 1, ftOpen, "idle", NoBuild,
                     NULL, TRUE, TRUE, TRUE, FALSE, FALSE)
        ELSE Outcome(MapPut(fs, pointSize, b.face), memoryUse + GetTotalTextureSize(b.face),
                     nextId + 1, ftOpen, "idle", NoBuild,
                     b.face.id, TRUE, TRUE, TRUE, TRUE, FALSE)

\* Font::GetFace(size) with the answers ft, img, tex of the engine, the file
\* system and the texture facility.
GetFaceOutcome(size, ft, img, tex) ==
    LET unchanged(ret) == Outcome(faces, memoryUse, nextId, ftOpen, "idle", NoBuild,
                                  ret, FALSE, FALSE, TRUE, FALSE, FALSE)
        pointSize == EffectiveKey(fontType, size)
    IN  IF ~graphics THEN unchanged(NULL)
        ELSE IF pointSize \in DOMAIN faces /\ ~IsDataLost(faces[pointSize], lost)
        THEN unchanged(faces[pointSize].id)
        ELSE LET fs == Erase(faces, pointSize)
             IN  IF fontType = "TTF" THEN GetFaceTTF(size, pointSize, fs, ft)
                 ELSE IF fontType = "BITMAP" THEN GetFaceBitmap(pointSize, fs, img, tex)
                 ELSE Outcome(fs, memoryUse, nextId, ftOpen, "idle", NoBuild,
                              NULL, FALSE, FALSE, TRUE, FALSE, FALSE)

\* What an observer notes before the call: the face cached for the size and
\* whether one of its page textures has lost its data.
Before(size) ==
    LET key == IF fontType = "BITMAP" THEN 0
               ELSE IF size < 1 THEN 1 ELSE IF size > 96 THEN 96 ELSE size
        pre == IF key \in DOMAIN faces THEN faces[key].id ELSE NULL
    IN  [op |-> "GetFace", size |-> size, type |-> fontType, preId |-> pre,
         preLost |-> pre # NULL /\ \E t \in lost : t[1] = pre]

Note(before, r) ==
    [op |-> before.op, size |-> before.size, type |-> before.type, preId |-> before.preId,
     preLost |-> before.preLost, ctor |-> r.ctor, built |-> r.built, done |-> r.done,
     ok |-> r.ok, ret |-> r.ret, engine |-> r.engine]

\* Font::GetFace(size): the whole call, or the call up to the packing loop when
\* an outline build gets that far.
GetFace(size) ==
    /\ pc = "idle"
    /\ \E r \in {GetFaceOutcome(size, a.ft, a.img, a.tex) : a \in Answers} :
             /\ r.nextId <= MaxBuilds
             /\ faces' = r.faces
             /\ memoryUse' = r.memoryUse
             /\ nextId' = r.nextId
             /\ ftOpen' = r.ftOpen
             /\ pc' = r.pc
             /\ cur' = r.cur
             /\ last' = Note(Before(size), r)
             /\ held' = [held EXCEPT ![size] = r.ret]
    /\ UNCHANGED <<graphics, fontType, fontData, fontDataSize, lost, loadedExt, splineVars, animVars>>

\* One iteration of the packing loop of FontFaceTTF::Load: a page is opened,
\* glyphs are placed until one is rejected, the page image is created and
\* cleared, and the glyphs placed are rendered into it. The data of an image is
\* a function of the byte offset. starts notes the glyph index each page began
\* with.
PackPage ==
    /\ pc = "pack"
    /\ cur.startIndex < cur.numGlyphs
    /\ cur.page < MaxPages
    /\ LET r == PackGlyphs(cur.face.glyphs, cur.startIndex, cur.numGlyphs, AreaAllocator, cur.page)
           texWidth == GetWidth(r.allocator)
           texHeight == GetHeight(r.allocator)
           cleared == [k \in 0..(texWidth * texHeight - 1) |-> 0]
           d == RenderGlyphs(fontData, r.glyphs, cur.startIndex, r.index, texWidth, cleared,
                             cur.sumMaxOpacity, cur.samples)
           image == [width |-> texWidth, height |-> texHeight, data |-> d.imageData]
       IN  cur' = [cur EXCEPT !.face.glyphs = r.glyphs,
                              !.images = Append(@, image),
                              !.starts = Append(@, cur.startIndex),
                              !.sumMaxOpacity = d.sumMaxOpacity,
                              !.samples = d.samples,
                              !.page = @ + 1,
                              !.startIndex = r.index]
    /\ UNCHANGED <<graphics, fontType, fontData, fontDataSize, faces, memoryUse, lost,
                   nextId, ftOpen, pc, last, held, loadedExt, splineVars, animVars>>

\* The end of FontFaceTTF::Load after the packing loop, and the rest of
\* Font::GetFaceTTF and Font::GetFace: the images are normalized, textures are
\* created, the engine face is released, the face is cached and returned.
FinishTTF ==
    /\ pc = "pack"
    /\ cur.startIndex >= cur.numGlyphs
    /\ \E tex \in FailAt :
         LET images == Normalize(cur.images, cur.face.glyphs, cur.numGlyphs,
                                 cur.sumMaxOpacity, cur.samples)
             t == CreateTextures(images, 1, <<>>, tex)
             newFace == [cur.face EXCEPT !.textures = t.textures, !.loaded = t.ok]
         IN  IF ~t.ok
             THEN /\ last' = [last EXCEPT !.done = TRUE, !.ok = FALSE, !.ret = NULL]
                  /\ held' = [held EXCEPT ![cur.size] = NULL]
                  /\ UNCHANGED <<faces, memoryUse, ftOpen>>
             ELSE /\ ftOpen' = ftOpen - 1
                  /\ memoryUse' = memoryUse + GetTotalTextureSize(newFace)
                  /\ faces' = MapPut(faces, cur.key, newFace)
                  /\ last' = [last EXCEPT !.done = TRUE, !.ok = TRUE, !.ret = newFace.id]
                  /\ held' = [held EXCEPT ![cur.size] = newFace.id]
    /\ pc' = "idle"
    /\ cur' = NoBuild
    /\ UNCHANGED <<graphics, fontType, fontData, fontDataSize, lost, nextId, loadedExt,
                   splineVars, animVars>>

\* The graphics system invalidates the data of one page texture of a cached face.
DataLoss ==
    /\ pc = "idle"
    /\ \E k \in DOMAIN faces :
         \E i \in 1..Len(faces[k].textures) :
            /\ <<faces[k].id, i>> \notin lost
            /\ lost' = lost \cup {<<faces[k].id, i>>}
    /\ UNCHANGED <<graphics, fontType, fontData, fontDataSize, faces, memoryUse, nextId,
                   ftOpen, pc, cur, last, held, loadedExt, splineVars, animVars>>

Next ==
    \/ \E ext \in Extensions, source \in Sources, readOk \in BOOLEAN :
         Load(ext, source, readOk)
    \/ \E size \in Sizes : GetFace(size)
    \/ PackPage
    \/ FinishTTF
    \/ DataLoss

Spec == Init /\ [][Next]_vars

\* ------------------------------------------------- the face specification

\* A font that Font::Load has just loaded, out of every outline program and
\* every descriptor of the bounds, from which one face is built.
FaceSources == Programs \cup ContentDescriptors \cup StructureDescriptors

InitFace ==
    /\ graphics = TRUE
    /\ fontData \in FaceSources
    /\ loadedExt = (IF fontData.kind = "ttf" THEN ".ttf" ELSE ".xml")
    /\ fontType = TypeOfExtension(loadedExt, "NONE")
    /\ fontDataSize = fontData.size
    /\ faces = EmptyMap
    /\ memoryUse = fontData.size
    /\ lost = {}
    /\ nextId = MaxBuilds - 1
    /\ ftOpen = 0
    /\ pc = "idle"
    /\ cur = NoBuild
    /\ last = NoCall
    /\ held = [s \in Sizes |-> NULL]
    /\ SplineAtRest
    /\ AnimatableAtRest

NextFace ==
    \/ \E size \in {12} : GetFace(size)
    \/ PackPage
    \/ FinishTTF

SpecFace == InitFace /\ [][NextFace]_vars

\* ------------------------------------------------ the coverage specification

\* Pixel values the engine renders.
InkLevels == {0, 64, 163, 200, 255}

Inks == {k \in [peak : InkLevels, body : InkLevels] : k.body <= k.peak}

\* Outline programs of three glyphs, an empty one, one of a single pixel and
\* one of 2 x 2 pixels, with every coverage of the two that have pixels.
InkPrograms ==
    {InkProgram(<<1, 2>>, <<SpaceMetrics, Metrics(FALSE, 1, 1), Metrics(FALSE, 2, 2)>>, FALSE,
                <<FullInk, Ink(a, a), b>>) : a \in InkLevels, b \in Inks}

\* A font that Font::Load has just loaded from one of these programs as *.ttf.
InitInk ==
    /\ graphics = TRUE
    /\ fontData \in InkPrograms
    /\ loadedExt = ".ttf"
    /\ fontType = TypeOfExtension(loadedExt, "NONE")
    /\ fontDataSize = fontData.size
    /\ faces = EmptyMap
    /\ memoryUse = fontData.size
    /\ lost = {}
    /\ nextId = MaxBuilds - 1
    /\ ftOpen = 0
    /\ pc = "idle"
    /\ cur = NoBuild
    /\ last = NoCall
    /\ held = [s \in Sizes |-> NULL]
    /\ SplineAtRest
    /\ AnimatableAtRest

SpecInk == InitInk /\ [][NextFace]_vars

\* ------------------------------------------------------------------ Spline

\* The parameters GetPoint is called with, in units of 1 / FUnit: below 0, the
\* ends 0 and 1, values between and values above 1.
FInputs == (0 - 2)..(FUnit + 2)

\* Spline::BezierInterpolation on knots_: the knot indices it reads. Deeper
\* levels of the recursion read interpolated values, no knots.
BezierInterpolation(size) ==
    [reads |-> 0..(size - 1), result |-> {"value"}]

\* Spline::CatmullRomInterpolation on knots_ with parameter t / FUnit.
\* orginIndex is the integer part of t * (size - 3). A read at an index that
\* is no index of knots_ trips the bounds assertion of Vector or fetches
\* whatever lies behind the buffer.
CatmullRomInterpolation(size, t) ==
    IF size < 4 THEN [reads |-> {}, result |-> {"EMPTY"}]
    ELSE LET orginIndex == (t * (size - 3)) \div FUnit
             reads == {orginIndex, orginIndex + 1, orginIndex + 2, orginIndex + 3}
         IN  [reads |-> reads,
              result |-> IF \A i \in reads : i < size THEN {"value"}
                         ELSE {"abort", "undefined"}]

\* Spline::GetPoint(f / FUnit): the knot indices read and the results possible.
GetPointOutcome(f) ==
    IF knots < 2
    THEN IF knots = 1 THEN [reads |-> {0}, result |-> {"value"}]
         ELSE [reads |-> {}, result |-> {"EMPTY"}]
    ELSE LET t == IF f > FUnit THEN FUnit ELSE IF f < 0 THEN 0 ELSE f
         IN  IF interpolationMode = "BEZIER_CURVE" THEN BezierInterpolation(knots)
             ELSE IF interpolationMode = "CATMULL_ROM_CURVE"
             THEN CatmullRomInterpolation(knots, t)
             ELSE [reads |-> {}, result |-> {"EMPTY"}]

\* Spline::Spline(mode).
InitSpline ==
    /\ InitFont /\ graphics
    /\ AnimatableAtRest
    /\ interpolationMode \in {"BEZIER_CURVE", "CATMULL_ROM_CURVE"}
    /\ knots = 0
    /\ point = NoPoint

\* Spline::AddKnot(knot) with a Vector3 knot.
AddKnot ==
    /\ knots < MaxKnots
    /\ knots' = knots + 1
    /\ UNCHANGED <<fontVars, animVars, interpolationMode, point>>

\* Spline::GetPoint(f / FUnit).
GetPoint(f) ==
    /\ LET r == GetPointOutcome(f)
       IN  \E result \in r.result :
              point' = [f |-> f, size |-> knots, reads |-> r.reads, result |-> result]
    /\ UNCHANGED <<fontVars, animVars, interpolationMode, knots>>

NextSpline ==
    \/ AddKnot
    \/ \E f \in FInputs : GetPoint(f)

SpecSpline == InitSpline /\ [][NextSpline]_vars

\* -------------------------------------------------------------- Animatable

\* The attributes of the object's type, in registration order: the one that
\* Animatable::RegisterObject registers and two of a derived type, one
\* replicated over the network and one that is not.
AttributeInfo(name, type, mode) == [name |-> name, type |-> type, mode |-> mode]

Attributes ==
    <<AttributeInfo("Object Animation", "VAR_RESOURCEREF", {"AM_FILE", "AM_NET"}),
      AttributeInfo("Position", "VAR_VECTOR3", {"AM_FILE", "AM_NET"}),
      AttributeInfo("Name", "VAR_STRING", {"AM_FILE"})>>

\* Serializable::GetNetworkAttributes: the attributes with AM_NET, in order.
NetworkAttributes == SelectSeq(Attributes, LAMBDA a : "AM_NET" \in a.mode)

\* The first element of a sequence of attributes that has the name; none: 0.
FindAttribute(attributes, name) ==
    IF \E i \in 1..Len(attributes) : attributes[i].name = name
    THEN CHOOSE i \in 1..Len(attributes) :
            /\ attributes[i].name = name
            /\ \A j \in 1..(i - 1) : attributes[j].name # name
    ELSE 0

\* AttributeAnimation objects: owner is the id of the ObjectAnimation the
\* animation was added to (GetObjectAnimation), 0 for none.
AttributeAnimation(id, valueType, owner) == [id |-> id, valueType |-> valueType, owner |-> owner]

\* The animations callers set directly, and names they use: one of a
\* replicated attribute, one of a local attribute, one of no attribute.
DirectAnimations ==
    {AttributeAnimation(1, "VAR_VECTOR3", 0), AttributeAnimation(2, "VAR_STRING", 0)}

Names == {"Position", "Name", "Bogus"}

\* ObjectAnimation objects: one without a name, one that is a named resource.
UnnamedObjectAnimation ==
    [id |-> 1, name |-> "",
     attributeAnimations |-> ("Position" :> AttributeAnimation(3, "VAR_VECTOR3", 1))]

NamedObjectAnimation ==
    [id |-> 2, name |-> "Object.xml",
     attributeAnimations |-> ("Name" :> AttributeAnimation(4, "VAR_STRING", 2)
                              @@ "Bogus" :> AttributeAnimation(5, "VAR_VECTOR3", 2))]

ObjectAnimations == {UnnamedObjectAnimation, NamedObjectAnimation}

\* SetAttributeAnimation that leaves the set of animated network attributes
\* alone when an animation is removed.
SetAttributeAnimation_KeepNetwork(this, name, attributeAnimation) ==
    LET current == name \in DOMAIN this.instances
    IN  IF attributeAnimation # NoAnimation
        THEN IF current /\ attributeAnimation = this.instances[name].animation THEN this
             ELSE LET at == FindAttribute(Attributes, name)
                  IN  IF ~current /\ at = 0 THEN this
                      ELSE LET attributeInfo == IF current THEN this.instances[name].info
                                                ELSE Attributes[at]
                           IN  IF attributeAnimation.valueType # attributeInfo.type THEN this
                               ELSE [this EXCEPT
                                       !.net = IF "AM_NET" \in attributeInfo.mode
                                                  /\ FindAttribute(NetworkAttributes, name) # 0
                                               THEN @ \cup {name} ELSE @,
                                       !.instances = MapPut(@, name,
                                           [animation |-> attributeAnimation,
                                            info |-> attributeInfo])]
        ELSE IF ~current THEN this
             ELSE [this EXCEPT !.instances = Erase(@, name)]

\* Animatable::SetAttributeAnimation(name, attributeAnimation) on the object
\* this: the object after the call.
SetAttributeAnimationOn(this, name, attributeAnimation) ==
    LET current == name \in DOMAIN this.instances
    IN  IF attributeAnimation # NoAnimation
        THEN IF current /\ attributeAnimation = this.instances[name].animation THEN this
             ELSE LET at == FindAttribute(Attributes, name)
                  IN  IF ~current /\ at = 0 THEN this
                      ELSE LET attributeInfo == IF current THEN this.instances[name].info
                                                ELSE Attributes[at]
                           IN  IF attributeAnimation.valueType # attributeInfo.type THEN this
                               ELSE [this EXCEPT
                                       !.net = IF "AM_NET" \in attributeInfo.mode
                                                  /\ FindAttribute(NetworkAttributes, name) # 0
                                               THEN @ \cup {name} ELSE @,
                                       !.instances = MapPut(@, name,
                                           [animation |-> attributeAnimation,
                                            info |-> attributeInfo])]
        ELSE IF ~current THEN this
             ELSE [this EXCEPT
                     !.net = IF "AM_NET" \in this.instances[name].info.mode
                                /\ FindAttribute(NetworkAttributes, name) # 0
                             THEN @ \ {name} ELSE @,
                     !.instances = Erase(@, name)]

\* The loop of OnObjectAnimationAdded over the names still to visit.
RECURSIVE SetAll(_, _, _)
SetAll(this, attributeAnimations, names) ==
    IF names = {} THEN this
    ELSE LET n == CHOOSE n \in names : TRUE
         IN  SetAll(SetAttributeAnimationOn(this, n, attributeAnimations[n]),
                    attributeAnimations, names \ {n})

\* The second loop of OnObjectAnimationRemoved over the names collected.
RECURSIVE RemoveAll(_, _)
RemoveAll(this, names) ==
    IF names = {} THEN this
    ELSE LET n == CHOOSE n \in names : TRUE
         IN  RemoveAll(SetAttributeAnimationOn(this, n, NoAnimation), names \ {n})

\* Animatable::OnObjectAnimationAdded.
OnObjectAnimationAdded(this, added) ==
    IF added = NoObjectAnimation THEN this
    ELSE SetAll(this, added.attributeAnimations, DOMAIN added.attributeAnimations)

\* Animatable::OnObjectAnimationRemoved.
OnObjectAnimationRemoved(this, removed) ==
    IF removed = NoObjectAnimation THEN this
    ELSE RemoveAll(this, {n \in DOMAIN this.instances :
                            this.instances[n].animation.owner = removed.id})

\* Animatable::SetObjectAnimation on the object this: the object after the call.
SetObjectAnimationOn(this, newAnimation) ==
    IF newAnimation = this.objectAnimation THEN this
    ELSE LET removed == IF this.objectAnimation # NoObjectAnimation
                        THEN OnObjectAnimationRemoved(this, this.objectAnimation)
                        ELSE this
             assigned == [removed EXCEPT !.objectAnimation = newAnimation]
         IN  IF newAnimation # NoObjectAnimation
             THEN OnObjectAnimationAdded(assigned, newAnimation)
             ELSE assigned

\* XMLElement::CreateChild(name) with what is then written into the child, and
\* XMLElement::GetChild(name) / GetNext(name) from position i on: element names
\* are compared character by character, as XML names are. A child that is
\* not found is position 0.
CreateChild(children, name, content) ==
    Append(children, [name |-> name, content |-> content])

GetChild(children, name, i) ==
    IF \E j \in i..Len(children) : children[j].name = name
    THEN CHOOSE j \in i..Len(children) :
            /\ children[j].name = name
            /\ \A k \in i..(j - 1) : children[k].name # name
    ELSE 0

\* The loop of SaveXML over the instances still to visit.
RECURSIVE SaveInstances(_, _, _)
SaveInstances(this, names, children) ==
    IF names = {} THEN children
    ELSE LET n == CHOOSE n \in names : TRUE
             instance == this.instances[n]
         IN  IF instance.animation.owner # 0
             THEN SaveInstances(this, names \ {n}, children)
             ELSE SaveInstances(this, names \ {n},
                     CreateChild(children, "attributeAnimation",
                                 [name |-> instance.info.name, animation |-> instance.animation]))

\* Animatable::SaveXML of the object this: the children of dest, and the
\* "Object Animation" attribute as Serializable::SaveXML writes it from
\* GetObjectAnimationAttr.
SaveXMLOf(this) ==
    LET first == IF this.objectAnimation # NoObjectAnimation /\ this.objectAnimation.name = ""
                 THEN CreateChild(<<>>, "objectAnimation", this.objectAnimation)
                 ELSE <<>>
    IN  [saved |-> TRUE,
         children |-> SaveInstances(this, DOMAIN this.instances, first),
         attribute |-> this.objectAnimation.name,
         from |-> this]

\* The object that ObjectAnimation::LoadXML or AttributeAnimation::LoadXML
\* builds from what was saved: a new object with the same content.
LoadedAttributeAnimation(a, owner) == AttributeAnimation(a.id + 10, a.valueType, owner)

LoadedObjectAnimation(o) ==
    [id |-> o.id + 10, name |-> "",
     attributeAnimations |->
        [n \in DOMAIN o.attributeAnimations |->
            LoadedAttributeAnimation(o.attributeAnimations[n], o.id + 10)]]

\* The while loop of LoadXML from the child at position i on.
RECURSIVE LoadInstances(_, _, _)
LoadInstances(this, children, i) ==
    IF i = 0 THEN this
    ELSE LoadInstances(
            SetAttributeAnimationOn(this, children[i].content.name,
                                    LoadedAttributeAnimation(children[i].content.animation, 0)),
            children, GetChild(children, "AttributeAnimation", i + 1))

\* Animatable::LoadXML of the element on the object this. Serializable::LoadXML
\* hands the "Object Animation" attribute to SetObjectAnimationAttr, which sets
\* the resource of that name unless the name is empty.
LoadXMLOn(this, element) ==
    LET named == IF element.attribute = "" THEN this
                 ELSE SetObjectAnimationOn(this,
                         CHOOSE o \in ObjectAnimations : o.name = element.attribute)
        at == GetChild(element.children, "ObjectAnimation", 1)
        withObject == IF at # 0
                      THEN SetObjectAnimationOn(named,
                              LoadedObjectAnimation(element.children[at].content))
                      ELSE named
    IN  LoadInstances(withObject, element.children,
                      GetChild(element.children, "AttributeAnimation", 1))

\* The object the variables describe.
This ==
    [objectAnimation |-> objectAnimation, instances |-> attributeAnimationInstances,
     net |-> animatedNetworkAttributes]

Becomes(this) ==
    /\ objectAnimation' = this.objectAnimation
    /\ attributeAnimationInstances' = this.instances
    /\ animatedNetworkAttributes' = this.net

\* Animatable::Animatable.
InitAnimatable ==
    /\ InitFont /\ graphics
    /\ SplineAtRest
    /\ AnimatableAtRest

\* Animatable::SetAttributeAnimation(name, attributeAnimation).
SetAttributeAnimation(name, attributeAnimation) ==
    /\ Becomes(SetAttributeAnimationOn(This, name, attributeAnimation))
    /\ UNCHANGED <<fontVars, splineVars, xml, copy>>

\* Animatable::SetObjectAnimation(objectAnimation).
SetObjectAnimation(newAnimation) ==
    /\ Becomes(SetObjectAnimationOn(This, newAnimation))
    /\ UNCHANGED <<fontVars, splineVars, xml, copy>>

\* Animatable::SaveXML(dest) into a new element.
SaveXML ==
    /\ xml' = SaveXMLOf(This)
    /\ UNCHANGED <<fontVars, splineVars, objectAnimation, attributeAnimationInstances,
                   animatedNetworkAttributes, copy>>

\* Animatable::LoadXML(source) of the saved element on a new object of the type.
LoadXML ==
    /\ xml.saved
    /\ copy' = [loaded |-> TRUE, object |-> LoadXMLOn(NewAnimatable, xml), from |-> xml.from]
    /\ UNCHANGED <<fontVars, splineVars, objectAnimation, attributeAnimationInstances,
                   animatedNetworkAttributes, xml>>

NextAnimatable ==
    \/ \E name \in Names, a \in DirectAnimations \cup {NoAnimation} :
          SetAttributeAnimation(name, a)
    \/ \E o \in ObjectAnimations \cup {NoObjectAnimation} : SetObjectAnimation(o)
    \/ SaveXML
    \/ LoadXML

SpecAnimatable == InitAnimatable /\ [][NextAnimatable]_vars

\* ----------------------------------------------------------------- claims

\* The cache key the spec gives a request: 0 for a bitmap-sheet font, the
\* point size brought into [1, 96] otherwise.
KeyFor(type, size) ==
    IF type = "BITMAP" THEN 0 ELSE IF size < 1 THEN 1 ELSE IF size > 96 THEN 96 ELSE size

\* The face with this id has a page texture that lost its data.
LostFace(id) == \E t \in lost : t[1] = id

\* A step of the model is a call GetFace(s): only such a step, taken when no
\* build is in progress, leaves a GetFace note and the lost textures alone.
GetFaceStep(s) == pc = "idle" /\ lost' = lost /\ last'.op = "GetFace" /\ last'.size = s

\* C1: when GetFace(s) returned a face F and since then no page texture of F
\* lost its data and the font was not loaded again, a GetFace(s) call returns F
\* itself, constructs no face and leaves the cache as it was.
C1_CachedFaceReturned ==
    [][\A s \in Sizes :
         (GetFaceStep(s) /\ held[s] # NULL /\ ~LostFace(held[s]))
            => /\ last'.ret = held[s]
               /\ ~last'.ctor
               /\ nextId' = nextId
               /\ faces' = faces
               /\ pc' = "idle"]_vars

\* C1 witness: a call returned the face that an earlier call had built.
C1_Witness ==
    /\ last.op = "GetFace" /\ ~last.ctor /\ last.ret # NULL
    /\ held[last.size] = last.ret
    /\ nextId >= 1

\* C2: when the face F cached for s has a page texture that lost its data, the
\* next GetFace(s) does not return F, F is no longer in the cache, a build is
\* run, and a successful build returns a new face, cached under the key of s.
C2_LostFaceRebuilt ==
    (last.op = "GetFace" /\ last.preLost)
       => /\ last.ret # last.preId
          /\ \A k \in DOMAIN faces : faces[k].id # last.preId
          /\ last.ctor /\ last.built
          /\ (last.done /\ last.ok)
                => /\ last.ret # NULL
                   /\ KeyFor(last.type, last.size) \in DOMAIN faces
                   /\ faces[KeyFor(last.type, last.size)].id = last.ret

\* C2 witness: a rebuild after data loss succeeded.
C2_Witness == last.op = "GetFace" /\ last.preLost /\ last.done /\ last.ok /\ last.ret # NULL

\* C3: a GetFace call whose build failed returned no face and left no cache
\* entry under its key, also when the build followed an eviction; and every
\* cache entry is a face whose Load returned success.
C3_FailedBuildNotCached ==
    /\ (last.op = "GetFace" /\ last.built /\ last.done /\ ~last.ok)
          => /\ last.ret = NULL
             /\ KeyFor(last.type, last.size) \notin DOMAIN faces
    /\ \A k \in DOMAIN faces : faces[k].loaded

\* C3 witness: the rebuild that followed the eviction of a lost face failed.
C3_Witness == last.op = "GetFace" /\ last.preLost /\ last.built /\ last.done /\ ~last.ok

\* C4 as claimed: an outline request of point size 0 or less returns no face
\* and makes no engine call; a request above 96 that succeeds returns the face
\* cached for 96.
C4_NonPositiveRejected ==
    (last.op = "GetFace" /\ last.type = "TTF")
       => /\ last.size <= 0 => (last.done /\ last.ret = NULL /\ ~last.engine)
          /\ (last.size > 96 /\ last.done /\ last.ok)
                => (96 \in DOMAIN faces /\ faces[96].id = last.ret)

\* C4 amended: an outline request of point size 0 or less is not rejected for
\* its size: it is built as point size 1 (the engine is called whenever the font
\* has data) and, when the build succeeds, returns the face cached for 1; a
\* request above 96 that succeeds returns the face built and cached for 96.
C4_NonPositiveClamped ==
    (last.op = "GetFace" /\ last.type = "TTF")
       => /\ (last.size <= 0 /\ last.built /\ fontDataSize # 0) => last.engine
          /\ (last.size <= 0 /\ last.done /\ last.ok)
                => (1 \in DOMAIN faces /\ faces[1].id = last.ret /\ faces[1].pointSize = 1)
          /\ (last.size > 96 /\ last.done /\ last.ok)
                => (96 \in DOMAIN faces /\ faces[96].id = last.ret /\ faces[96].pointSize = 96)

\* C4 witness: requests of point size 0 and of point size 97 both returned a face.
C4_Witness ==
    /\ fontType = "TTF" /\ held[0] # NULL /\ held[97] # NULL
    /\ last.op = "GetFace" /\ last.done /\ last.ok

\* The ids that the char records of a descriptor declare.
DeclaredIds(data) == {data.chars[n].id : n \in 1..Len(data.chars)}

\* The ordered pairs that the kerning records of a descriptor declare.
DeclaredPairs(data) ==
    IF data.hasKernings
    THEN {<<data.kernings[n].first, data.kernings[n].second>> : n \in 1..Len(data.kernings)}
    ELSE {}

\* The cached faces built from a descriptor.
BitmapFaces == {faces[k] : k \in {x \in DOMAIN faces : faces[x].kind = "bitmap"}}

CachedFaces == {faces[k] : k \in DOMAIN faces}

\* C5: on a face built from a descriptor, GetKerning(a, b) returns the amount
\* of the kerning record (a, b) whose ids are both declared by char records,
\* and GetKerning(b, a) returns 0 when no record for (b, a) is declared.
C5_KerningRoundTrip ==
    \A f \in BitmapFaces :
       \A n \in 1..Len(fontData.kernings) :
          LET r == fontData.kernings[n]
          IN  (fontData.hasKernings /\ r.first \in DeclaredIds(fontData)
                 /\ r.second \in DeclaredIds(fontData))
                 => /\ GetKerning(f, r.first, r.second).value = r.amount
                    /\ <<r.second, r.first>> \notin DeclaredPairs(fontData)
                          => GetKerning(f, r.second, r.first).value = 0

\* C6: in a cached face every value of the code-point mapping is below the
\* number of glyphs, and every mapped glyph's page is below the number of page
\* textures or the glyph has zero width or height and page 0.
C6_MappedGlyphsValid ==
    \A f \in CachedFaces :
       \A c \in DOMAIN f.glyphMapping :
          /\ f.glyphMapping[c] < Len(f.glyphs)
          /\ LET g == f.glyphs[f.glyphMapping[c] + 1]
             IN  \/ g.page < Len(f.textures)
                 \/ (g.width = 0 \/ g.height = 0) /\ g.page = 0

\* C7: an outline build never opens a second page for the same glyph: the
\* pages of the packing loop start at different glyph indices.
C7_NoPageForSameGlyph ==
    pc = "pack" =>
       \A i \in 1..Len(cur.starts) : \A j \in 1..Len(cur.starts) :
          i # j => cur.starts[i] # cur.starts[j]

\* C8: the cache of a bitmap-sheet font holds at most the key 0; as long as no
\* texture lost its data every face returned is the cached one, and a call
\* that finds it constructs no face.
C8_BitmapSingleKey ==
    fontType = "BITMAP"
       => /\ DOMAIN faces \subseteq {0}
          /\ lost = {} => \A s \in Sizes :
                             held[s] # NULL => (0 \in DOMAIN faces /\ faces[0].id = held[s])
          /\ (last.op = "GetFace" /\ last.preId # NULL /\ ~last.preLost)
                => (~last.ctor /\ last.ret = last.preId)

\* C8 witness: requests of a negative size, of 0 and of 97 returned one face.
C8_Witness ==
    /\ fontType = "BITMAP" /\ lost = {}
    /\ held[0 - 3] # NULL /\ held[0] = held[0 - 3] /\ held[97] = held[0 - 3]

\* The fields of a glyph that a char record declares.
SameAsRecord(g, c) ==
    /\ g.x = c.x /\ g.y = c.y /\ g.width = c.width /\ g.height = c.height
    /\ g.offsetX = c.xoffset /\ g.offsetY = c.yoffset /\ g.advanceX = c.xadvance
    /\ g.page = c.page

\* The position of the last char record that declares the id.
LastRecord(data, id) == MaxOf({n \in 1..Len(data.chars) : data.chars[n].id = id})

\* C9: the glyph table of a face built from a descriptor holds one glyph per
\* char record, in document order; GetGlyph(id) returns the values of the last
\* record that declares the id, and none for an id that no record declares.
C9_GlyphsInDocumentOrder ==
    \A f \in BitmapFaces :
       /\ Len(f.glyphs) = Len(fontData.chars)
       /\ \A n \in 1..Len(f.glyphs) : SameAsRecord(f.glyphs[n], fontData.chars[n])
       /\ \A c \in Codes :
             IF c \in DeclaredIds(fontData)
             THEN /\ GetGlyph(f, c).found
                  /\ SameAsRecord(GetGlyph(f, c).glyph, fontData.chars[LastRecord(fontData, c)])
             ELSE ~GetGlyph(f, c).found

\* C9 witness: a face built from a descriptor that declares an id twice, with
\* different values, and leaves another id out.
C9_Witness ==
    \E f \in BitmapFaces :
       /\ \E i \in 1..Len(fontData.chars) : \E j \in 1..Len(fontData.chars) :
             i < j /\ fontData.chars[i].id = fontData.chars[j].id
                   /\ fontData.chars[i] # fontData.chars[j]
       /\ \E c \in Codes : c \notin DeclaredIds(fontData)

\* C10: for a code point c that the mapping of a cached face does not hold,
\* GetGlyph(c) returns none and GetKerning(c, d) and GetKerning(d, c) return 0
\* for every d, and none of the calls reads a glyph table entry.
C10_AbsentCodePoint ==
    \A f \in CachedFaces :
       \A c \in Codes \ DOMAIN f.glyphMapping :
          /\ ~GetGlyph(f, c).found /\ GetGlyph(f, c).reads = {}
          /\ \A d \in Codes :
                /\ GetKerning(f, c, d) = [value |-> 0, reads |-> {}]
                /\ GetKerning(f, d, c) = [value |-> 0, reads |-> {}]

\* C10 witness: a cached face with kerning data that maps 65 and not 67.
C10_Witness ==
    \E f \in CachedFaces :
       f.hasKerning /\ 65 \in DOMAIN f.glyphMapping /\ 67 \notin DOMAIN f.glyphMapping

\* The kind the extension of a resource name denotes.
KindOfName(ext) ==
    IF ext = ".ttf" THEN "TTF" ELSE IF ext = ".xml" \/ ext = ".fnt" THEN "BITMAP" ELSE "NONE"

\* C11: after a successful Load with graphics available the font kind is the
\* one the extension of the resource name denotes: outline for ".ttf",
\* bitmap-sheet for ".xml" and ".fnt", unrecognized for any other, also when
\* the font was loaded before under a name of another kind; and while the name
\* denotes no kind, GetFace returns no face, constructs none and the cache is
\* empty.
C11_KindFollowsName ==
    loadedExt # "" =>
        /\ fontType = KindOfName(loadedExt)
        /\ KindOfName(loadedExt) = "NONE" =>
              /\ faces = EmptyMap
              /\ pc = "idle"
              /\ last.op = "GetFace" => (last.ret = NULL /\ ~last.ctor)

\* The glyphs of a face that have pixels, and of those the ones whose bitmap,
\* as the engine renders it from the font data, has a non-zero value.
SizedGlyphs(f) ==
    {i \in 0..(Len(f.glyphs) - 1) : f.glyphs[i + 1].width # 0 /\ f.glyphs[i + 1].height # 0}

GlyphMaximum(f, i) ==
    MaxOf({SlotBitmap(fontData, i, x, y) :
             x \in 0..(f.glyphs[i + 1].width - 1), y \in 0..(f.glyphs[i + 1].height - 1)})

InkedGlyphs(f) == {i \in SizedGlyphs(f) : GlyphMaximum(f, i) # 0}

RECURSIVE SumOfMaxima(_, _)
SumOfMaxima(f, S) ==
    IF S = {} THEN 0
    ELSE LET i == CHOOSE i \in S : TRUE IN GlyphMaximum(f, i) + SumOfMaxima(f, S \ {i})

\* The scale factor the spec gives: the integer average of the non-zero glyph
\* maxima of all pages, raised to at least 128.
ClaimedAverage(f) ==
    LET S == InkedGlyphs(f)
        average == SumOfMaxima(f, S) \div Cardinality(S)
    IN  IF average < 128 THEN 128 ELSE average

\* The value the spec gives a pixel of value p inside a glyph rectangle.
ClaimedPixel(f, p) ==
    IF InkedGlyphs(f) = {} \/ ClaimedAverage(f) >= 255 THEN p
    ELSE LET v == (p * 255) \div ClaimedAverage(f) IN IF v < 255 THEN v ELSE 255

\* The glyphs of f whose rectangle on page (0-based) covers the pixel at byte
\* offset k of the page, and the value the engine rendered for that pixel.
GlyphsAt(f, page, k) ==
    LET w == f.textures[page + 1].width
    IN  {i \in SizedGlyphs(f) :
           LET g == f.glyphs[i + 1]
           IN  /\ g.page = page
               /\ k % w \in g.x..(g.x + g.width - 1)
               /\ k \div w \in g.y..(g.y + g.height - 1)}

RenderedAt(f, i, page, k) ==
    LET w == f.textures[page + 1].width
        g == f.glyphs[i + 1]
    IN  SlotBitmap(fontData, i, (k % w) - g.x, (k \div w) - g.y)

OutlineFaces == {f \in CachedFaces : f.kind = "ttf"}

\* C12 as stated: one scale factor for all pages, the integer average of the
\* non-zero glyph maxima raised to at least 128; below 255 every pixel p of
\* every glyph rectangle is min(floor(p * 255 / average), 255), hence at most
\* 255, at least p, and 127 for p = 64 when every maximum is 64; pixels outside
\* glyph rectangles are 0; with an average of 255 or no coverage nothing changes.
C12_NormalizedExactly ==
    \A f \in OutlineFaces :
       \A page \in 0..(Len(f.textures) - 1) :
          \A k \in DOMAIN f.textures[page + 1].data :
             IF GlyphsAt(f, page, k) = {}
             THEN f.textures[page + 1].data[k] = 0
             ELSE \A i \in GlyphsAt(f, page, k) :
                     f.textures[page + 1].data[k] = ClaimedPixel(f, RenderedAt(f, i, page, k))

\* C12 amended: as stated, except that the product is computed in single
\* precision, so that a pixel p for which p * 255 is a multiple of the average
\* may end one below floor(p * 255 / average); every other pixel has the value
\* stated, no pixel exceeds 255 and none decreases.
C12_NormalizedWithinOne ==
    \A f \in OutlineFaces :
       \A page \in 0..(Len(f.textures) - 1) :
          \A k \in DOMAIN f.textures[page + 1].data :
             LET v == f.textures[page + 1].data[k]
             IN  IF GlyphsAt(f, page, k) = {}
                 THEN v = 0
                 ELSE \A i \in GlyphsAt(f, page, k) :
                         LET p == RenderedAt(f, i, page, k)
                             c == ClaimedPixel(f, p)
                         IN  /\ v <= 255 /\ v >= p
                             /\ v \in {c - 1, c}
                             /\ v = c - 1 =>
                                  /\ InkedGlyphs(f) # {}
                                  /\ ClaimedAverage(f) < 255
                                  /\ (p * 255) % ClaimedAverage(f) = 0

\* C12 witness: a face was built from glyphs whose maxima are all 64, the
\* average used was 128, and a pixel of value 64 became 127.
C12_Witness ==
    \E f \in OutlineFaces :
       /\ InkedGlyphs(f) # {}
       /\ \A i \in InkedGlyphs(f) : GlyphMaximum(f, i) = 64
       /\ ClaimedAverage(f) = 128
       /\ \E page \in 0..(Len(f.textures) - 1) :
             \E k \in DOMAIN f.textures[page + 1].data :
                \E i \in GlyphsAt(f, page, k) :
                   RenderedAt(f, i, page, k) = 64 /\ f.textures[page + 1].data[k] = 127

Sized(g) == g.width # 0 /\ g.height # 0

\* The packer of a page after the glyphs of non-zero size with index in
\* from..(to - 1) were given their padded rectangles in index order.
RECURSIVE PackerAfter(_, _, _)
PackerAfter(glyphs, from, to) ==
    IF to <= from THEN AreaAllocator
    ELSE LET a == PackerAfter(glyphs, from, to - 1)
             g == glyphs[to]
         IN  IF Sized(g) THEN Allocate(a, g.width + 1, g.height + 1).a ELSE a

\* Whether the glyph of index i fits a page that holds the glyphs from..(i - 1).
FitsAfter(glyphs, from, i) ==
    Allocate(PackerAfter(glyphs, from, i), glyphs[i + 1].width + 1, glyphs[i + 1].height + 1).ok

\* The index range of page p (1-based position in starts) of a build that has
\* packed the glyphs below limit.
PageFrom(starts, p) == starts[p]

PageTo(starts, limit, p) == IF p < Len(starts) THEN starts[p + 1] ELSE limit

\* C13: in the outline build the glyphs of non-zero size are offered to the
\* packer in increasing index order and the first one rejected closes the page:
\* every page holds exactly the glyphs of non-zero size of one contiguous index
\* range, each of which fitted when its turn came; the range ends with the first
\* glyph that did not fit, and with that glyph the next page starts; page
\* indices never decrease with the glyph index, in the build and in the face
\* that is cached.
C13_PackedInIndexOrder ==
    /\ pc = "pack" =>
         LET glyphs == cur.face.glyphs
             starts == cur.starts
             limit == cur.startIndex
         IN  /\ Len(starts) = cur.page
             /\ \A p \in 1..Len(starts) :
                   /\ PageFrom(starts, p) <= PageTo(starts, limit, p)
                   /\ p = 1 => PageFrom(starts, p) = 0
                   /\ \A i \in 0..(limit - 1) :
                         Sized(glyphs[i + 1]) =>
                            (glyphs[i + 1].page = p - 1
                               <=> (PageFrom(starts, p) <= i /\ i < PageTo(starts, limit, p)))
                   /\ \A i \in PageFrom(starts, p)..(PageTo(starts, limit, p) - 1) :
                         Sized(glyphs[i + 1]) => FitsAfter(glyphs, PageFrom(starts, p), i)
                   /\ PageTo(starts, limit, p) < cur.numGlyphs =>
                         /\ Sized(glyphs[PageTo(starts, limit, p) + 1])
                         /\ ~FitsAfter(glyphs, PageFrom(starts, p), PageTo(starts, limit, p))
    /\ \A f \in OutlineFaces :
          \A i \in SizedGlyphs(f), j \in SizedGlyphs(f) :
             i < j => f.glyphs[i + 1].page <= f.glyphs[j + 1].page

\* C13 witness: a build has packed every glyph; its second page starts with
\* the glyph of non-zero size that the first page rejected, and a later glyph
\* went to a later page although it would have fitted the first page.
C13_Witness ==
    /\ pc = "pack"
    /\ Len(cur.starts) >= 2
    /\ cur.startIndex = cur.numGlyphs
    /\ cur.face.glyphs[cur.starts[2] + 1].page = 1
    /\ \E i \in (cur.starts[2] + 1)..(cur.numGlyphs - 1) :
          /\ Sized(cur.face.glyphs[i + 1])
          /\ cur.face.glyphs[i + 1].page >= 1
          /\ FitsAfter([cur.face.glyphs EXCEPT ![cur.starts[2] + 1] = cur.face.glyphs[i + 1]],
                       0, cur.starts[2])

\* The faces cached under a key other than key stay cached, unchanged in every
\* field: identity, glyph table with its kerning data, row height, page list.
OtherFacesKept(key) ==
    \A k \in (DOMAIN faces) \ {key} : k \in DOMAIN faces' /\ faces'[k] = faces[k]

\* C14: a face is not modified once its build returned. Every step of a
\* GetFace(s) call, the build it runs included, leaves the faces cached under
\* keys other than the effective key of s as they are; and whenever a cache
\* entry is set or changes, it holds a face whose identity differs from that of
\* every face cached before the step and from the lost face the call evicted.
C14_FacesNotModified ==
    [][/\ \A s \in Sizes : GetFaceStep(s) => OtherFacesKept(KeyFor(fontType, s))
       /\ pc = "pack" => OtherFacesKept(cur.key)
       /\ \A k \in DOMAIN faces' :
             (k \notin DOMAIN faces \/ faces'[k] # faces[k]) =>
                /\ \A j \in DOMAIN faces : faces[j].id # faces'[k].id
                /\ last'.preId # faces'[k].id]_vars

\* C14 witness: a call built and cached a face while an older face was cached
\* under another key.
C14_Witness ==
    /\ last.op = "GetFace" /\ last.ctor /\ last.done /\ last.ok
    /\ KeyFor(last.type, last.size) \in DOMAIN faces
    /\ faces[KeyFor(last.type, last.size)].id = last.ret
    /\ \E k \in (DOMAIN faces) \ {KeyFor(last.type, last.size)} : faces[k].id < last.ret

RECURSIVE SumOfTextureSizes(_)
SumOfTextureSizes(S) ==
    IF S = {} THEN 0
    ELSE LET f == CHOOSE f \in S : TRUE
         IN  GetTotalTextureSize(f) + SumOfTextureSizes(S \ {f})

\* C15: with graphics available, between calls, the memory use the font
\* reports is the size of its font data plus the sum of GetTotalTextureSize
\* over the faces held in its cache, so that a face evicted because of data
\* loss is no longer counted after the rebuild.
C15_MemoryUseIsDataPlusFaces ==
    (graphics /\ pc = "idle") => memoryUse = fontDataSize + SumOfTextureSizes(CachedFaces)

\* C19: every engine face handle that FontFaceTTF::Load creates is released
\* before Load returns, whether the build succeeds or fails after the handle
\* was created: whenever no build is in progress, no handle is open.
C19_NoEngineFaceLeftOpen ==
    pc = "idle" => ftOpen = 0

\* C16: for a Catmull-Rom spline with n >= 4 knots, GetPoint reads only knot
\* indices in 0..n-1, whatever the parameter: 0, 1, values between, and values
\* outside [0, 1], which are clamped to the ends.
C16_ReadsInsideKnots ==
    (interpolationMode = "CATMULL_ROM_CURVE" /\ point.result # "none" /\ point.size >= 4)
        => \A i \in point.reads : 0 <= i /\ i <= point.size - 1

\* The object holds only animations the round trip is about: attribute
\* animations set directly or brought by the object animation it has, and no
\* object animation or one without a name.
RoundTripSubject(this) ==
    /\ this.objectAnimation.name = ""
    /\ \A n \in DOMAIN this.instances :
          this.instances[n].animation.owner \in {0, this.objectAnimation.id}

\* C17: for an object that holds attribute animations set directly and possibly
\* an unnamed object animation, SaveXML followed by LoadXML of the element on a
\* new object of the type yields the same set of animated attribute names and
\* the same presence of an object animation.
C17_RoundTripKeepsAnimations ==
    (copy.loaded /\ RoundTripSubject(copy.from)) =>
        /\ DOMAIN copy.object.instances = DOMAIN copy.from.instances
        /\ (copy.object.objectAnimation # NoObjectAnimation)
              <=> (copy.from.objectAnimation # NoObjectAnimation)

\* C18: the set of animated network attributes holds exactly the attributes
\* with AM_NET for whose name an attribute animation instance exists.
C18_NetworkSetMatchesInstances ==
    animatedNetworkAttributes =
        {NetworkAttributes[i].name : i \in 1..Len(NetworkAttributes)}
            \cap DOMAIN attributeAnimationInstances

\* C18 witness: after animations were added, one was removed again and calls
\* were rejected, a replicated and a local attribute are animated and only the
\* replicated one is in the set.
C18_Witness ==
    /\ "Position" \in animatedNetworkAttributes
    /\ "Name" \in DOMAIN attributeAnimationInstances
    /\ "Name" \notin animatedNetworkAttributes
    /\ objectAnimation = NamedObjectAnimation
    /\ attributeAnimationInstances["Position"].animation.owner = 0

====
